---- MODULE Spec2Model ----
(***************************************************************************)
(* YED.Tilemap.Layer (src/src/Tilemap/Layer.js): one Layer object, from    *)
(* its construction through renderLayer(), update() and moveLoopLayer().   *)
(*                                                                         *)
(* Numbers are JavaScript numbers restricted to the integers, plus one     *)
(* value NaN that stands for every non-finite result (NaN, +-Infinity).    *)
(* Object coordinates (data.objects[i].x, .y, .height) are held in half    *)
(* pixels so that Math.round has something to round.                       *)
(* Strings read by parseInt are sequences of one-character strings.        *)
(***************************************************************************)
EXTENDS Integers, Sequences, FiniteSets, TLC

\* ---------------------------------------------------------------- bounds
MaxRenders == 2
MaxTicks == 2
MaxTiles == 3

\* ------------------------------------------------------ JavaScript values
\* the non-finite number (x % 0, i / 0, parseInt of a non-number)
NaN == -999

\* an absent property (data.properties.planeX not set)
Undefined == <<"undefined">>

Digits == <<"0", "1", "2", "3", "4", "5", "6", "7", "8", "9">>

IsDigit(c) == \E d \in 1..Len(Digits) : Digits[d] = c

DigitVal(c) == (CHOOSE d \in 1..Len(Digits) : Digits[d] = c) - 1

RECURSIVE ParseDigits(_, _, _, _)
\* the longest prefix of digits of s from position k, as a number
ParseDigits(s, k, acc, seen) ==
    IF k > Len(s) \/ ~IsDigit(s[k])
    THEN IF seen THEN acc ELSE NaN
    ELSE ParseDigits(s, k + 1, acc * 10 + DigitVal(s[k]), TRUE)

\* parseInt(v): optional sign, then leading decimal digits; NaN without one
ParseInt(v) ==
    IF v = Undefined \/ Len(v) = 0 THEN NaN
    ELSE IF v[1] = "-"
         THEN LET n == ParseDigits(v, 2, 0, FALSE)
              IN  IF n = NaN THEN NaN ELSE 0 - n
         ELSE IF v[1] = "+" THEN ParseDigits(v, 2, 0, FALSE)
         ELSE ParseDigits(v, 1, 0, FALSE)

\* !!n for a number: NaN and 0 are falsy
TruthyNum(n) == n # NaN /\ n # 0

\* !!v for a property value: absent and "" are falsy, every other string truthy
TruthyProp(v) == v # Undefined /\ Len(v) > 0

JsAdd(a, b) == IF a = NaN \/ b = NaN THEN NaN ELSE a + b

JsMul(a, b) == IF a = NaN \/ b = NaN THEN NaN ELSE a * b

\* a % b: the remainder has the sign of the dividend; x % 0 is NaN
JsMod(a, b) ==
    IF a = NaN \/ b = NaN \/ b = 0 THEN NaN
    ELSE IF a >= 0 THEN a % b ELSE 0 - ((0 - a) % b)

\* Math.floor(a / b) for a >= 0, b >= 0; a / 0 is not finite
JsFloorDiv(a, b) ==
    IF a = NaN \/ b = NaN \/ b = 0 THEN NaN ELSE a \div b

\* Math.round of h half pixels: halves round towards +Infinity
MathRound(h) == (h + 1) \div 2


\* ------------------------------------------------------------------ state
VARIABLES
    args,           \* the constructor's arguments: data, tilesets, tileWidth, tileHeight
    env,            \* $gameMap's loop flags, Graphics' size, the ImageManager's image
    pc,             \* "new" before the constructor, "ready" after it, "dead" if it threw
    last,           \* the method called last
    err,            \* what the last call threw: "none" or "TypeError"
    _data, _tilesets, _tileWidth, _tileHeight, _gridHorz, _gridVert,
    visible,        \* Sprite#visible
    bitmap,         \* Sprite#bitmap, the node's own bitmap
    _layerBitmap,   \* the backing bitmap
    _tilingSprite,  \* index in children of the current tiling sprite, 0 for null
    children,       \* the node's children, in addChild order
    blts,           \* the blt calls on _layerBitmap of the last renderLayer()
    nextId,         \* identity of the next object allocated by `new`
    renders,        \* renderLayer() calls so far
    ticks,          \* update() calls since _tilingSprite was created
    moved           \* moveLoopLayer() has set the origin of _tilingSprite

vars == <<args, env, pc, last, err, _data, _tilesets, _tileWidth, _tileHeight,
          _gridHorz, _gridVert, visible, bitmap, _layerBitmap, _tilingSprite,
          children, blts, nextId, renders, ticks, moved>>

fields == <<_data, _tilesets, _tileWidth, _tileHeight, _gridHorz, _gridVert, visible>>

\* null for data
Null == [null |-> TRUE]

\* null / undefined for a Bitmap reference
NoBitmap == [id |-> 0, width |-> 0, height |-> 0]

\* new Bitmap(width, height)
Bitmap(id, width, height) == [id |-> id, width |-> width, height |-> height]

\* new TilingSprite(bmp): origin (0, 0), empty frame
TilingSprite(bmp) ==
    [bitmap |-> bmp, origin |-> [x |-> 0, y |-> 0],
     frame |-> [x |-> 0, y |-> 0, width |-> 0, height |-> 0]]

\* TilingSprite#move(x, y, width, height)
Move(sprite, x, y, width, height) ==
    [sprite EXCEPT !.frame = [x |-> x, y |-> y, width |-> width, height |-> height]]

\* ----------------------------------------------------------------- inputs
TileIds == {0, 1, 2}

RECURSIVE SeqsUpTo(_, _)
\* the sequences over S of length at most n
SeqsUpTo(S, n) ==
    IF n = 0 THEN {<<>>}
    ELSE LET shorter == SeqsUpTo(S, n - 1)
         IN  shorter \cup {Append(s, e) : s \in {t \in shorter : Len(t) = n - 1}, e \in S}

\* a tileset is the set of tile IDs for which its isInTileset answers true
TilesetLists == SeqsUpTo(SUBSET (TileIds \ {0}), 2)

SpeedStrings == {Undefined, <<"0">>, <<"2">>, <<"-", "1">>, <<"3", "p">>, <<"p">>}

Properties(parallax, planeX, planeY) ==
    [parallax |-> parallax, planeX |-> planeX, planeY |-> planeY]

NoProperties == Properties(Undefined, Undefined, Undefined)

LayerData(type, width, tiles, objects, vis, props) ==
    [type |-> type, width |-> width, height |-> 1, data |-> tiles,
     objects |-> objects, x |-> 1, y |-> 0, visible |-> vis, properties |-> props]

\* objects of an object layer: gid, and x, y, height in half pixels
ObjectLists ==
    {<<>>,
     <<[gid |-> 1, x |-> 5, y |-> 9, height |-> 4]>>,
     <<[gid |-> 0, x |-> 0, y |-> 2, height |-> 2],
       [gid |-> 2, x |-> -1, y |-> 3, height |-> 4]>>}

Env(loopH, loopV) ==
    [loopH |-> loopH, loopV |-> loopV, width |-> 8, height |-> 6,
     img |-> Bitmap(1, 3, 2)]

Args(d, ts) == [data |-> d, tilesets |-> ts, tileWidth |-> 2, tileHeight |-> 3]

\* tile layers that differ in their tiles and tilesets, on a map without loop
TileCases ==
    {<<Args(LayerData("tilelayer", w, tiles, <<>>, TRUE, NoProperties), ts),
       Env(FALSE, FALSE)>> :
        w \in {0, 2}, tiles \in SeqsUpTo(TileIds, MaxTiles), ts \in TilesetLists}

\* tile and object layers that differ in the map's loop and their scroll speeds
LoopCases ==
    {<<Args(LayerData(type, 2, IF type = "tilelayer" THEN <<1, 0, 1>> ELSE <<>>,
                      IF type = "objectgroup" THEN objs ELSE <<>>, TRUE,
                      Properties(Undefined, px, py)), <<{1}, {1, 2}>>),
       Env(h, v)>> :
        type \in {"tilelayer", "objectgroup"}, objs \in ObjectLists,
        px \in SpeedStrings, py \in {Undefined, <<"-", "1">>, <<"1">>},
        h \in BOOLEAN, v \in BOOLEAN}

\* image layers, plane layers and layers of an unknown type
ImageCases ==
    {<<Args(LayerData(type, 2, <<>>, <<>>, vis, Properties(par, px, py)), <<{1}>>),
       Env(FALSE, TRUE)>> :
        type \in {"imagelayer", "group"}, vis \in BOOLEAN,
        par \in {Undefined, <<>>, <<"1">>}, px \in SpeedStrings,
        py \in {Undefined, <<"-", "1">>, <<"1">>}}

\* a layer constructed without data
NullCases == {<<Args(Null, <<{1}>>), Env(FALSE, FALSE)>>}

Cases == LoopCases \cup ImageCases \cup NullCases

MoveCoords == {<<-2, 5>>, <<1, 0>>}

\* the object before its constructor has run
Fresh ==
    /\ pc = "new"
    /\ last = "none"
    /\ err = "none"
    /\ _data = Null
    /\ _tilesets = <<>>
    /\ _tileWidth = 0
    /\ _tileHeight = 0
    /\ _gridHorz = 0
    /\ _gridVert = 0
    /\ visible = TRUE
    /\ bitmap = NoBitmap
    /\ _layerBitmap = NoBitmap
    /\ _tilingSprite = 0
    /\ children = <<>>
    /\ blts = <<>>
    /\ nextId = 2
    /\ renders = 0
    /\ ticks = 0
    /\ moved = FALSE

Init == Fresh /\ \E c \in Cases : args = c[1] /\ env = c[2]

InitTiles == Fresh /\ \E c \in TileCases : args = c[1] /\ env = c[2]

\* ------------------------------------------------------------- properties
\* the data getter: this._data || null
data == _data

gridHorz == _gridHorz

gridVert == _gridVert

tileWidth == _tileWidth

tileHeight == _tileHeight

tilesData == data.data

objectsData == data.objects

tilesets == _tilesets

properties == data.properties

\* ------------------------------------------------------------- predicates
isTileLayer == data.type = "tilelayer"

isObjectLayer == data.type = "objectgroup"

\* isImageLayer() as the fall-through of the two other kinds
isImageLayerByDefault == data.type # "tilelayer" /\ data.type # "objectgroup"

isImageLayer == data.type = "imagelayer"

isPlaneLayer == isImageLayer /\ TruthyProp(properties.parallax)

isLoopHorizontal == env.loopH

isLoopVertical == env.loopV

isLoop == isLoopHorizontal \/ isLoopVertical

\* `this.isLoop` as _renderTileLayer and _renderObjectLayer test it: the
\* method itself, not its result, and a function is truthy
isLoopReference == TRUE

\* ------------------------------------------------------------ tile lookup
RECURSIVE ScanTilesetsToLast(_, _)
\* the for loop of _getTileset without its return: the last match wins
ScanTilesetsToLast(tileId, i) ==
    IF i > Len(tilesets) THEN 0
    ELSE LET later == ScanTilesetsToLast(tileId, i + 1)
         IN  IF later # 0 THEN later
             ELSE IF tileId \notin tilesets[i] THEN 0
             ELSE i

RECURSIVE ScanTilesets(_, _)
\* the for loop of _getTileset from index i: first tileset not answering false
ScanTilesets(tileId, i) ==
    IF i > Len(tilesets) THEN 0
    ELSE IF tileId \notin tilesets[i] THEN ScanTilesets(tileId, i + 1)
    ELSE i

\* _getTileset(tileId): index of the tileset in the list, 0 for null
GetTileset(tileId) == ScanTilesets(tileId, 1)

BltCall(src, tileId, x, y) == [src |-> src, tileId |-> tileId, x |-> x, y |-> y]

\* _drawTile(tileId, x, y) on the render state rs: a TypeError when
\* _getTileset returned null, else one blt on the backing bitmap
DrawTile(rs, tileId, x, y) ==
    LET tileset == GetTileset(tileId)
    IN  IF tileset = 0 THEN [rs EXCEPT !.err = "TypeError"]
        ELSE [rs EXCEPT !.blts = Append(@, BltCall(tileset, tileId, x, y))]

\* --------------------------------------------------------------- rendering
\* _renderLoopLayer(): a new tiling sprite over the backing bitmap
RenderLoopLayer(rs) ==
    LET tilingWidth  == IF isLoopHorizontal THEN env.width ELSE rs.layerBitmap.width
        tilingHeight == IF isLoopVertical THEN env.height ELSE rs.layerBitmap.height
        sprite == Move(TilingSprite(rs.layerBitmap), 0, 0, tilingWidth, tilingHeight)
    IN  [rs EXCEPT !.children = Append(@, sprite),
                   !.tilingSprite = Len(rs.children) + 1,
                   !.created = TRUE]

\* the tail of _renderTileLayer and of _renderObjectLayer
FinishLayer(rs) ==
    IF rs.err # "none" THEN rs
    ELSE IF isLoopReference THEN RenderLoopLayer(rs)
    ELSE [rs EXCEPT !.bitmap = rs.layerBitmap]

RECURSIVE TileLoopFromOne(_, _)
\* the for loop of _renderTileLayer placing tile i at the cell of i + 1
TileLoopFromOne(rs, i) ==
    IF i >= Len(tilesData) \/ rs.err # "none" THEN rs
    ELSE LET tileId  == tilesData[i + 1]
             bitmapX == JsMul(JsMod(i + 1, _gridHorz), tileWidth)
             bitmapY == JsMul(JsFloorDiv(i + 1, _gridHorz), tileHeight)
         IN  IF tileId = 0 THEN TileLoopFromOne(rs, i + 1)
             ELSE TileLoopFromOne(DrawTile(rs, tileId, bitmapX, bitmapY), i + 1)

RECURSIVE TileLoop(_, _)
\* the for loop of _renderTileLayer from index i (0-based)
TileLoop(rs, i) ==
    IF i >= Len(tilesData) \/ rs.err # "none" THEN rs
    ELSE LET tileId  == tilesData[i + 1]
             bitmapX == JsMul(JsMod(i, _gridHorz), tileWidth)
             bitmapY == JsMul(JsFloorDiv(i, _gridHorz), tileHeight)
         IN  IF tileId = 0 THEN TileLoop(rs, i + 1)
             ELSE TileLoop(DrawTile(rs, tileId, bitmapX, bitmapY), i + 1)

RenderTileLayer(rs) == FinishLayer(TileLoop(rs, 0))

RECURSIVE ObjectLoop(_, _)
\* the for loop of _renderObjectLayer from index i (0-based)
ObjectLoop(rs, i) ==
    IF i >= Len(objectsData) \/ rs.err # "none" THEN rs
    ELSE LET obj     == objectsData[i + 1]
             tileId  == obj.gid
             bitmapX == MathRound(obj.x)
             bitmapY == MathRound(obj.y - obj.height)
         IN  IF tileId = 0 THEN ObjectLoop(rs, i + 1)
             ELSE ObjectLoop(DrawTile(rs, tileId, bitmapX, bitmapY), i + 1)

RenderObjectLayer(rs) == FinishLayer(ObjectLoop(rs, 0))

\* _renderImageLayer(): one blt of the image (src 0) at (data.x, data.y)
RenderImageLayer(rs) ==
    [rs EXCEPT !.blts = Append(@, BltCall(0, 0, data.x, data.y)),
               !.bitmap = rs.layerBitmap]

\* _renderPlaneLayer() wrapping the backing bitmap instead of the image
RenderPlaneLayerOverBitmap(rs) ==
    LET sprite == Move(TilingSprite(rs.layerBitmap), data.x, data.y, env.width, env.height)
    IN  [rs EXCEPT !.children = Append(@, sprite),
                   !.tilingSprite = Len(rs.children) + 1,
                   !.created = TRUE]

\* _renderPlaneLayer(): a new tiling sprite over the image
RenderPlaneLayer(rs) ==
    LET sprite == Move(TilingSprite(env.img), data.x, data.y, env.width, env.height)
    IN  [rs EXCEPT !.children = Append(@, sprite),
                   !.tilingSprite = Len(rs.children) + 1,
                   !.created = TRUE]

\* one `if (cond) step()` of renderLayer; nothing runs after a throw
Step(rs, cond, after) == IF rs.err = "none" /\ cond THEN after ELSE rs

\* the first statement of renderLayer: this._layerBitmap || new Bitmap(...)
LayerBitmapOrNew ==
    IF _layerBitmap # NoBitmap THEN _layerBitmap
    ELSE Bitmap(nextId, gridHorz * tileWidth, gridVert * tileHeight)

\* the body of renderLayer() as a function of the state before the call
RenderResult ==
    LET rs0 == [layerBitmap |-> LayerBitmapOrNew, bitmap |-> bitmap,
                children |-> children, tilingSprite |-> _tilingSprite,
                blts |-> <<>>, err |-> "none", created |-> FALSE]
        rs1 == Step(rs0, isObjectLayer, RenderObjectLayer(rs0))
        rs2 == Step(rs1, isTileLayer, RenderTileLayer(rs1))
        rs3 == Step(rs2, isImageLayer /\ ~isPlaneLayer, RenderImageLayer(rs2))
        rs4 == Step(rs3, isPlaneLayer, RenderPlaneLayer(rs3))
    IN  rs4

\* ----------------------------------------------------------------- actions
\* new Layer(data, tilesets, tileWidth, tileHeight)
Initialize ==
    /\ pc = "new"
    /\ last' = "initialize"
    /\ _data' = args.data
    /\ IF args.data # Null
       THEN _gridHorz' = args.data.width /\ _gridVert' = args.data.height
       ELSE UNCHANGED <<_gridHorz, _gridVert>>
    /\ _tilesets' = args.tilesets
    /\ _tileWidth' = args.tileWidth
    /\ _tileHeight' = args.tileHeight
    /\ _tilingSprite' = 0
    /\ IF args.data = Null
       THEN /\ err' = "TypeError"
            /\ pc' = "dead"
            /\ UNCHANGED visible
       ELSE /\ err' = "none"
            /\ pc' = "ready"
            /\ visible' = IF ~args.data.visible THEN FALSE ELSE visible
    /\ UNCHANGED <<args, env, bitmap, _layerBitmap, children, blts, nextId,
                   renders, ticks, moved>>

\* layer.renderLayer()
RenderLayer ==
    /\ pc = "ready"
    /\ renders < MaxRenders
    /\ LET rs == RenderResult
       IN  /\ _layerBitmap' = rs.layerBitmap
           /\ nextId' = IF _layerBitmap = NoBitmap THEN nextId + 1 ELSE nextId
           /\ bitmap' = rs.bitmap
           /\ children' = rs.children
           /\ _tilingSprite' = rs.tilingSprite
           /\ blts' = rs.blts
           /\ err' = rs.err
           /\ ticks' = IF rs.created THEN 0 ELSE ticks
           /\ moved' = IF rs.created THEN FALSE ELSE moved
    /\ last' = "renderLayer"
    /\ renders' = renders + 1
    /\ UNCHANGED <<args, env, pc, fields>>

\* what a call that returns normally leaves: the children and no exception
Returned(kids) == [children |-> kids, err |-> "none"]

\* _updatePlane() without the wrap: the origin only accumulates
UpdatePlaneNoWrap ==
    LET xSpeed == ParseInt(properties.planeX)
        ySpeed == ParseInt(properties.planeY)
    IN  IF _tilingSprite = 0 THEN Returned(children)
        ELSE LET ox == children[_tilingSprite].origin.x
                 oy == children[_tilingSprite].origin.y
                 nx == IF TruthyNum(xSpeed) THEN JsAdd(ox, xSpeed) ELSE ox
                 ny == IF TruthyNum(ySpeed) THEN JsAdd(oy, ySpeed) ELSE oy
             IN  Returned([children EXCEPT ![_tilingSprite].origin = [x |-> nx, y |-> ny]])

\* _updatePlane() with the test of xSpeed copied to the y axis
UpdatePlaneOneTest ==
    LET xSpeed == ParseInt(properties.planeX)
        ySpeed == ParseInt(properties.planeY)
    IN  IF _tilingSprite = 0 THEN Returned(children)
        ELSE LET ox  == children[_tilingSprite].origin.x
                 oy  == children[_tilingSprite].origin.y
                 mOx == children[_tilingSprite].bitmap.width
                 mOy == children[_tilingSprite].bitmap.height
                 nx  == IF TruthyNum(xSpeed) THEN JsMod(JsAdd(ox, xSpeed), mOx) ELSE ox
                 ny  == IF TruthyNum(xSpeed) THEN JsMod(JsAdd(oy, ySpeed), mOy) ELSE oy
             IN  Returned([children EXCEPT ![_tilingSprite].origin = [x |-> nx, y |-> ny]])

\* _updatePlane(): the children after one frame
UpdatePlane ==
    LET xSpeed == ParseInt(properties.planeX)
        ySpeed == ParseInt(properties.planeY)
    IN  IF _tilingSprite = 0 THEN Returned(children)
        ELSE LET ox  == children[_tilingSprite].origin.x
                 oy  == children[_tilingSprite].origin.y
                 mOx == children[_tilingSprite].bitmap.width
                 mOy == children[_tilingSprite].bitmap.height
                 nx  == IF TruthyNum(xSpeed) THEN JsMod(JsAdd(ox, xSpeed), mOx) ELSE ox
                 ny  == IF TruthyNum(ySpeed) THEN JsMod(JsAdd(oy, ySpeed), mOy) ELSE oy
             IN  Returned([children EXCEPT ![_tilingSprite].origin = [x |-> nx, y |-> ny]])

\* layer.update()
Update ==
    /\ pc = "ready"
    /\ ticks < MaxTicks
    /\ children' = UpdatePlane.children
    /\ err' = UpdatePlane.err
    /\ ticks' = IF _tilingSprite # 0 THEN ticks + 1 ELSE ticks
    /\ last' = "update"
    /\ UNCHANGED <<args, env, pc, fields, bitmap, _layerBitmap, _tilingSprite,
                   blts, nextId, renders, moved>>

\* moveLoopLayer(x, y) without its guard: null.origin throws
MoveLoopLayerUnguarded(x, y) ==
    IF _tilingSprite = 0 THEN [children |-> children, err |-> "TypeError"]
    ELSE Returned([children EXCEPT ![_tilingSprite].origin = [x |-> x, y |-> y]])

\* the body of moveLoopLayer(x, y)
MoveLoopLayerBody(x, y) ==
    IF _tilingSprite = 0 THEN Returned(children)
    ELSE Returned([children EXCEPT ![_tilingSprite].origin = [x |-> x, y |-> y]])

\* layer.moveLoopLayer(x, y)
MoveLoopLayer(x, y) ==
    /\ pc = "ready"
    /\ children' = MoveLoopLayerBody(x, y).children
    /\ err' = MoveLoopLayerBody(x, y).err
    /\ moved' = (moved \/ _tilingSprite # 0)
    /\ last' = "moveLoopLayer"
    /\ UNCHANGED <<args, env, pc, fields, bitmap, _layerBitmap, _tilingSprite,
                   blts, nextId, renders, ticks>>

Next ==
    \/ Initialize
    \/ RenderLayer
    \/ Update
    \/ \E c \in MoveCoords : MoveLoopLayer(c[1], c[2])

Spec == Init /\ [][Next]_vars

\* the setup of a tile layer: construction, then rendering
NextTiles ==
    \/ Initialize
    \/ RenderLayer

SpecTiles == InitTiles /\ [][NextTiles]_vars


\* ================================================================= claims
\* the current tiling sprite (only where _tilingSprite # 0)
Sprite == children[_tilingSprite]

\* the last call was renderLayer() and it returned normally
Rendered == pc = "ready" /\ last = "renderLayer" /\ err = "none"

\* C1: after renderLayer() on a tile or object layer, a map that loops on
\* neither axis gets no tiling sprite and the node's bitmap is the backing
\* bitmap; a tiling sprite is a child (node bitmap unset) only when the map
\* loops on some axis.
C1_LoopWrapping ==
    (Rendered /\ data.type \in {"tilelayer", "objectgroup"}) =>
        IF ~env.loopH /\ ~env.loopV
        THEN /\ children = <<>>
             /\ _tilingSprite = 0
             /\ bitmap # NoBitmap
             /\ bitmap = _layerBitmap
        ELSE /\ _tilingSprite # 0
             /\ bitmap = NoBitmap

\* C2: a renderLayer() that follows a renderLayer() leaves the same backing
\* bitmap object, the same number of child tiling sprites (at most one) and
\* the same node bitmap as the call before it.
C2_RenderIdempotent ==
    [][(Rendered /\ renders' = renders + 1) =>
        /\ _layerBitmap' = _layerBitmap
        /\ Len(children') = Len(children)
        /\ Len(children') <= 1
        /\ bitmap' = bitmap]_vars

\* C7: constructing a Layer with null data does not fail: the grid is 0 x 0,
\* no exception is thrown by the constructor or by a later renderLayer(),
\* and nothing is drawn.
C7_NullDataConstructs ==
    (args.data = Null /\ last # "none") =>
        /\ err = "none"
        /\ pc = "ready"
        /\ _gridHorz = 0
        /\ _gridVert = 0
        /\ blts = <<>>


\* the scroll speed the claims give to a property value, where they give one
ClaimedSpeed(v) ==
    CASE v = Undefined -> 0
      [] v = <<"0">> -> 0
      [] v = <<"p">> -> 0
      [] v = <<"1">> -> 1
      [] v = <<"2">> -> 2
      [] v = <<"-", "1">> -> -1
      [] v = <<"3", "p">> -> 3

\* C3 as claimed: after an update() that moves an axis, the origin on that
\* axis is in [0, dimension), whatever the sign of the speed and the origin
\* before.
C3_OriginInRange ==
    (pc = "ready" /\ last = "update" /\ _tilingSprite # 0) =>
        /\ ClaimedSpeed(data.properties.planeX) # 0 =>
               (0 <= Sprite.origin.x /\ Sprite.origin.x < Sprite.bitmap.width)
        /\ ClaimedSpeed(data.properties.planeY) # 0 =>
               (0 <= Sprite.origin.y /\ Sprite.origin.y < Sprite.bitmap.height)

\* the origin o1 an update() leaves on an axis of speed s and dimension d
\* from the origin o0: strictly between -d and d, and in [0, d) when
\* o0 + s is not negative
WrappedAxis(o0, s, d, o1) ==
    s # 0 =>
        /\ 0 - d < o1
        /\ o1 < d
        /\ (o0 + s >= 0) => (0 <= o1)

\* C3 amended: after every update() that moves an axis of a tiling sprite,
\* the origin on that axis is strictly between -dimension and dimension,
\* and in [0, dimension) when the origin before the call plus the speed is
\* not negative.
C3_OriginWrapped ==
    [][(pc = "ready" /\ _tilingSprite # 0 /\ last' = "update") =>
        /\ WrappedAxis(Sprite.origin.x, ClaimedSpeed(data.properties.planeX),
                       Sprite.bitmap.width, Sprite.origin.x')
        /\ WrappedAxis(Sprite.origin.y, ClaimedSpeed(data.properties.planeY),
                       Sprite.bitmap.height, Sprite.origin.y')]_vars

\* C3 witness: from the origin (1, 0) that moveLoopLayer() set, an update()
\* has wrapped the x axis at speed 3 and taken the y axis to -1 at speed -1
C3_Witness ==
    /\ pc = "ready" /\ last = "update" /\ _tilingSprite # 0 /\ moved
    /\ ClaimedSpeed(data.properties.planeX) = 3
    /\ ClaimedSpeed(data.properties.planeY) = -1
    /\ Sprite.bitmap.width = 4
    /\ Sprite.origin.x = 0
    /\ Sprite.origin.y = -1

\* C4: from the origin (0, 0) and without moveLoopLayer(), n update() calls
\* leave origin.x = (n * sx) mod W and origin.y = (n * sy) mod H for
\* non-negative integer speeds, each axis on its own; an axis whose speed
\* is 0, absent or not a number keeps its origin.
C4_ScrollAccumulates ==
    (pc = "ready" /\ _tilingSprite # 0 /\ ~moved) =>
        LET sx == ClaimedSpeed(data.properties.planeX)
            sy == ClaimedSpeed(data.properties.planeY)
        IN  /\ sx >= 0 =>
                   Sprite.origin.x = (ticks * sx) % Sprite.bitmap.width
            /\ sy >= 0 =>
                   Sprite.origin.y = (ticks * sy) % Sprite.bitmap.height

\* C4 witness: two frames at speed 2 have wrapped the x axis while the y
\* axis, without a speed, stayed
C4_Witness ==
    /\ pc = "ready" /\ _tilingSprite # 0 /\ ~moved /\ last = "update"
    /\ data.properties.planeX = <<"2">>
    /\ data.properties.planeY = Undefined
    /\ ticks = 2
    /\ ticks * 2 >= Sprite.bitmap.width
    /\ Sprite.origin.x = (ticks * 2) % Sprite.bitmap.width
    /\ Sprite.origin.y = 0

\* C8: while there is no tiling sprite, update() and moveLoopLayer(x, y)
\* throw nothing and leave the node's bitmap, the backing bitmap, the
\* children, the visibility and the data as they were, and create no
\* tiling sprite.
C8_NoSpriteNoOp ==
    [][(pc = "ready" /\ _tilingSprite = 0 /\ last' \in {"update", "moveLoopLayer"}) =>
        /\ err' = "none"
        /\ UNCHANGED <<bitmap, _layerBitmap, children, visible, _data, _tilingSprite>>]_vars

\* C8 witness: both calls were made on a rendered image layer without
\* parallax, which has no tiling sprite
C8_Witness ==
    /\ pc = "ready" /\ _tilingSprite = 0 /\ renders > 0
    /\ data.type = "imagelayer"
    /\ bitmap # NoBitmap
    /\ last = "moveLoopLayer"
    /\ ticks = 0


\* the layer is an image layer with a truthy parallax property
ParallaxImage ==
    data.type = "imagelayer" /\ data.properties.parallax \notin {Undefined, <<>>}

\* C5 as claimed: a plane layer never has a backing bitmap; only an image
\* layer without parallax is given one.
C5_NoBackingBitmap ==
    (pc = "ready" /\ data.type = "imagelayer" /\ ParallaxImage) =>
        _layerBitmap = NoBitmap

\* C5 amended: renderLayer() allocates the backing bitmap for a plane layer
\* too, but a plane layer never draws on it and never shows it: no blt is
\* issued, the node's bitmap stays unset and every tiling sprite wraps the
\* loaded image; an image layer without parallax gets the image blitted on
\* the backing bitmap, which becomes the node's bitmap, and no tiling sprite.
C5_PlaneBypassesBitmap ==
    (pc = "ready" /\ data.type = "imagelayer" /\ renders > 0) =>
        /\ _layerBitmap = Bitmap(2, data.width * args.tileWidth,
                                 data.height * args.tileHeight)
        /\ IF ParallaxImage
           THEN /\ blts = <<>>
                /\ bitmap = NoBitmap
                /\ _tilingSprite # 0
                /\ \A k \in 1..Len(children) : children[k].bitmap = env.img
           ELSE /\ blts = <<BltCall(0, 0, data.x, data.y)>>
                /\ bitmap = _layerBitmap
                /\ _tilingSprite = 0
                /\ children = <<>>

\* C5 witness: a plane layer has been rendered twice
C5_Witness ==
    /\ pc = "ready" /\ data.type = "imagelayer" /\ ParallaxImage
    /\ last = "renderLayer"
    /\ renders = 2
    /\ _layerBitmap # NoBitmap
    /\ Sprite.bitmap = env.img

\* C6 as claimed: renderLayer() on a layer of an unknown type throws
\* nothing and creates no surface at all, neither a backing bitmap nor a
\* tiling sprite, and leaves the node without a bitmap.
C6_UnknownTypeNoSurface ==
    (pc = "ready" /\ last = "renderLayer"
        /\ data.type \notin {"tilelayer", "objectgroup", "imagelayer"}) =>
        /\ err = "none"
        /\ blts = <<>>
        /\ _layerBitmap = NoBitmap
        /\ _tilingSprite = 0
        /\ children = <<>>
        /\ bitmap = NoBitmap

\* C6 amended: renderLayer() on a layer of an unknown type throws nothing
\* and runs none of the four strategies: no blt, no tiling sprite, no node
\* bitmap; its one effect is that the backing bitmap is allocated.
C6_UnknownTypeOnlyAllocates ==
    (pc = "ready" /\ last = "renderLayer"
        /\ data.type \notin {"tilelayer", "objectgroup", "imagelayer"}) =>
        /\ err = "none"
        /\ blts = <<>>
        /\ _layerBitmap = Bitmap(2, data.width * args.tileWidth,
                                 data.height * args.tileHeight)
        /\ _tilingSprite = 0
        /\ children = <<>>
        /\ bitmap = NoBitmap

\* C6 witness: a layer of type "group", with a parallax property, rendered
C6_Witness ==
    /\ pc = "ready" /\ last = "renderLayer"
    /\ data.type = "group"
    /\ data.properties.parallax = <<"1">>
    /\ renders = 2

\* the 0-based indices of the non-zero tiles
NonZero == {i \in 0..(Len(data.data) - 1) : data.data[i + 1] # 0}

\* every non-zero tile ID of the layer is in some tileset of the list
AllResolvable ==
    \A i \in NonZero : \E j \in 1..Len(args.tilesets) : data.data[i + 1] \in args.tilesets[j]

\* C9: on a tile layer with gridHorz > 0 whose non-zero tile IDs are all in
\* some tileset, one renderLayer() issues exactly one blt per non-zero
\* entry, in increasing index order, for that tile ID at
\* ((i mod gridHorz) * tileWidth, floor(i / gridHorz) * tileHeight); zero
\* entries issue none.
C9_TileDrawCalls ==
    (pc = "ready" /\ last = "renderLayer" /\ data.type = "tilelayer"
        /\ data.width > 0 /\ AllResolvable) =>
        /\ err = "none"
        /\ Len(blts) = Cardinality(NonZero)
        /\ \A i \in NonZero :
               LET k == Cardinality({j \in NonZero : j <= i})
               IN  /\ blts[k].tileId = data.data[i + 1]
                   /\ blts[k].x = (i % data.width) * args.tileWidth
                   /\ blts[k].y = (i \div data.width) * args.tileHeight

\* C9 witness: a rendered layer with a zero entry between two tiles, the
\* second tile in the second row
C9_Witness ==
    /\ pc = "ready" /\ last = "renderLayer" /\ data.type = "tilelayer"
    /\ data.width = 2 /\ AllResolvable
    /\ data.data = <<2, 0, 1>>
    /\ Len(blts) = 2
    /\ blts[2].y = args.tileHeight

\* C10: _getTileset(tileId) is the tileset of lowest index that contains
\* the ID, also when several do, and null exactly when none of the list
\* does, the empty list included; _drawTile draws from that tileset.
C10_FirstTileset ==
    pc = "ready" =>
        /\ \A t \in TileIds :
               LET r == GetTileset(t)
                   holders == {j \in 1..Len(args.tilesets) : t \in args.tilesets[j]}
               IN  /\ (r = 0) <=> (holders = {})
                   /\ r # 0 => (r \in holders /\ \A j \in holders : r <= j)
        /\ \A k \in 1..Len(blts) :
               /\ blts[k].tileId \in args.tilesets[blts[k].src]
               /\ \A j \in 1..(blts[k].src - 1) : blts[k].tileId \notin args.tilesets[j]

\* C10 witness: a tile that both tilesets of the list contain was drawn
\* from the first, and a tile only in the second from the second
C10_Witness ==
    /\ pc = "ready" /\ last = "renderLayer" /\ err = "none"
    /\ args.tilesets = <<{1}, {1, 2}>>
    /\ data.data = <<1, 2>>
    /\ blts[1].src = 1
    /\ blts[2].src = 2

====
